---- MODULE Spec2Model ----
(***************************************************************************)
(* Camera-lifecycle state machines of the scanner-app repository:          *)
(*   - the guarded QrScanner of src/src/QrScanner.jsx (lines 789-1197),    *)
(*     with mountedRef / initializingRef / stoppingRef;                    *)
(*   - the camera-switching QrScanner of src/unnamed/part_001.             *)
(* The decode engine (html5-qrcode) and the browser are the environment:   *)
(* an engine call that the source awaits is in flight from the step that   *)
(* issues it to the step that completes it, and the completion's outcome   *)
(* (resolve / reject) is chosen by the environment.  getState reports      *)
(* SCANNING from the completion of a successful start to the completion of *)
(* a successful stop; a rejected call leaves the engine as it was.         *)
(***************************************************************************)
EXTENDS Integers, Sequences, FiniteSets, Bags, TLC

\* ------------------------------------------------------------------ bounds
\* decode callbacks the engine delivers in one run
MaxDecodes == 2
\* engine stop/clear calls the environment rejects in one run
MaxFaults == 1
\* restartScanning calls in one run
MaxRestarts == 2

\* ------------------------------------------------- device labels and lists
UpperChars == {"A", "B", "C", "D", "E", "F", "G", "H", "I", "J", "K", "L", "M", "N", "O", "P", "Q", "R", "S", "T", "U", "V", "W", "X", "Y", "Z"}
LowerOf == [c \in UpperChars |-> CASE c = "A" -> "a"
    [] c = "B" -> "b"
    [] c = "C" -> "c"
    [] c = "D" -> "d"
    [] c = "E" -> "e"
    [] c = "F" -> "f"
    [] c = "G" -> "g"
    [] c = "H" -> "h"
    [] c = "I" -> "i"
    [] c = "J" -> "j"
    [] c = "K" -> "k"
    [] c = "L" -> "l"
    [] c = "M" -> "m"
    [] c = "N" -> "n"
    [] c = "O" -> "o"
    [] c = "P" -> "p"
    [] c = "Q" -> "q"
    [] c = "R" -> "r"
    [] c = "S" -> "s"
    [] c = "T" -> "t"
    [] c = "U" -> "u"
    [] c = "V" -> "v"
    [] c = "W" -> "w"
    [] c = "X" -> "x"
    [] c = "Y" -> "y"
    [] c = "Z" -> "z"]

LblIntegrated == <<"I", "n", "t", "e", "g", "r", "a", "t", "e", "d", " ", "C", "a", "m", "e", "r", "a">>
LblUSER == <<"U", "S", "E", "R", " ", "c", "a", "m">>
LblFrontFacing == <<"F", "r", "o", "n", "t", " ", "F", "a", "c", "i", "n", "g", " ", "C", "a", "m", "e", "r", "a">>
LblSelfie == <<"S", "e", "l", "f", "i", "e">>
LblFacing == <<"f", "a", "c", "i", "n", "g", " ", "o", "u", "t">>
LblBack == <<"B", "a", "c", "k">>

PatFront == <<"f", "r", "o", "n", "t">>
PatUser == <<"u", "s", "e", "r">>
PatSelfie == <<"s", "e", "l", "f", "i", "e">>
PatFacing == <<"f", "a", "c", "i", "n", "g">>

\* String.prototype.toLowerCase, per character (the /i flag of the pattern)
Lower(c) == IF c \in UpperChars THEN LowerOf[c] ELSE c

\* the pattern p (lower case) occurs in s at position i, ignoring case
MatchAt(s, p, i) ==
  /\ i >= 1
  /\ i + Len(p) - 1 <= Len(s)
  /\ \A j \in 1..Len(p) : Lower(s[i + j - 1]) = p[j]

HasSub(s, p) == \E i \in 1..Len(s) : MatchAt(s, p, i)

\* /front|user|selfie|facing.*user/i.test(label)
FrontRegex(label) ==
  \/ HasSub(label, PatFront)
  \/ HasSub(label, PatUser)
  \/ HasSub(label, PatSelfie)
  \/ \E i \in 1..Len(label) :
       /\ MatchAt(label, PatFacing, i)
       /\ \E k \in (i + Len(PatFacing))..Len(label) : MatchAt(label, PatUser, k)

\* the last element in order that satisfies the test
FindFrontLast(devices) ==
  LET hits == {i \in 1..Len(devices) : FrontRegex(devices[i].label)}
  IN IF hits = {} THEN 0 ELSE CHOOSE i \in hits : \A k \in hits : i >= k

\* Array.prototype.find: the first element in order that satisfies the test
FindFront(devices) ==
  LET hits == {i \in 1..Len(devices) : FrontRegex(devices[i].label)}
  IN IF hits = {} THEN 0 ELSE CHOOSE i \in hits : \A k \in hits : i <= k

\* getFrontCamera, after a successful non-empty enumeration
getFrontCamera(devices) ==
  IF FindFront(devices) # 0 THEN devices[FindFront(devices)].id ELSE devices[1].id

Dev(i, l) == [id |-> i, label |-> l]

\* what Html5Qrcode.getCameras() may resolve to
DeviceLists ==
  { <<>>,
    <<Dev("1", LblIntegrated)>>,
    <<Dev("1", LblBack), Dev("2", LblUSER)>> }

\* outcomes of the enumeration: it resolves to a list, or it rejects
EnumOutcomes ==
  {[ok |-> TRUE, devices |-> d] : d \in DeviceLists} \cup {[ok |-> FALSE, devices |-> <<>>]}


\* decoded payloads the engine may report
Texts == {"qr"}

\* ======================================================================
\* The guarded QrScanner (src/src/QrScanner.jsx, lines 789-1026)
\* ======================================================================
VARIABLES
  qrRef,           \* qrRef.current is set (the engine handle exists)
  scanningRef, mountedRef, initializingRef, stoppingRef,
  message, error, decodedValue, isScanning,   \* React state, the observer's view
  listening,       \* the visibilitychange listener is registered
  lsnIsScanning,   \* isScanning as captured by the registered listener's closure
  cleanupArmed,    \* the last run of the mount effect returned its cleanup
  depIsScanning,   \* isScanning of the render whose effect dependencies are current
  unmounted,       \* React has removed the component
  visibility,      \* document.visibilityState
  eState,          \* what qrRef.current.getState() reports
  eCam,            \* the device the engine was last started on
  tracks,          \* the video element holds a live media stream
  inflight,        \* bag of calls awaiting a promise or a timer
  held,            \* engine starts issued that have not failed and that no
                   \* completed engine stop has followed
  sessDecodes,     \* decode notifications the observer got since the last start
  nDecodes, faults, restarts,                 \* budget counters
  disposed,        \* the effect cleanup has run
  td,              \* what the cleanup found, and the engine stop/clear issued
                   \* from then until the next engine start succeeds (open)
  stopThrew,       \* an engine stop or clear has rejected
  last             \* the handler that ran last and the engine calls it issued

gvars == <<qrRef, scanningRef, mountedRef, initializingRef, stoppingRef,
           message, error, decodedValue, isScanning, listening, lsnIsScanning,
           cleanupArmed, depIsScanning, unmounted, visibility, eState, eCam, tracks,
           inflight, held, sessDecodes, nDecodes, faults, restarts, disposed, td,
           stopThrew, last>>

\* state of the camera-switching QrScanner (src/unnamed/part_001)
VARIABLES
  swQrRef,         \* qrRef.current is set
  swScanningRef,   \* scanningRef.current
  swStopOnScan,    \* the stopOnScan prop (App passes false, part_000 line 10)
  swMessage, swError, swCameras, swActiveId,   \* React state
  swListening,     \* the visibilitychange listener is registered
  swUnmounted,     \* React has removed the component
  swVisibility,    \* document.visibilityState
  swEState,        \* what qrRef.current.getState() reports
  swInflight,      \* bag of calls awaiting a promise
  swHeld,          \* as held, for this component
  swFaults,        \* engine stop/clear calls rejected so far
  swLast           \* the handler that ran last and the calls it issued

swvars == <<swQrRef, swScanningRef, swStopOnScan, swMessage, swError, swCameras,
            swActiveId, swListening, swUnmounted, swVisibility, swEState,
            swInflight, swHeld, swFaults, swLast>>

\* state of CheckInQRScan (src/src/QrScanner.jsx, lines 322-626)
VARIABLES
  ciQrRef, ciScanningRef, ciMountedRef, ciInitializingRef, ciStoppingRef,
  ciIsScanning, ciIsLoading, ciToastMessage,   \* React state
  ciListening,     \* the visibilitychange listener is registered
  ciLsnIsScanning, \* isScanning as captured by the registered listener's closure
  ciCleanupArmed,  \* the last run of the mount effect returned its cleanup
  ciDepIsScanning, \* isScanning of the render whose effect dependencies are current
  ciUnmounted,     \* React has removed the component
  ciVisibility,    \* document.visibilityState
  ciEState,        \* what qrRef.current.getState() reports
  ciInflight,      \* bag of calls awaiting a promise or a timer
  ciSessVerifies,  \* verifyCode calls since the last engine start
  ciDecodes, ciFaults,                         \* budget counters
  ciDisposed,      \* the effect cleanup has run
  ciLast           \* the handler that ran last and what it did

civars == <<ciQrRef, ciScanningRef, ciMountedRef, ciInitializingRef, ciStoppingRef,
            ciIsScanning, ciIsLoading, ciToastMessage, ciListening, ciLsnIsScanning,
            ciCleanupArmed, ciDepIsScanning, ciUnmounted, ciVisibility, ciEState,
            ciInflight, ciSessVerifies, ciDecodes, ciFaults, ciDisposed, ciLast>>

\* one call of getFrontCamera (src/src/QrScanner.jsx, lines 812-833)
VARIABLES
  pkStage,         \* "idle", "listed" (getCameras resolved), "picked", "failed"
  pkDevices,       \* the list Html5Qrcode.getCameras() resolved to
  pkPicked         \* the id getFrontCamera returned

pkvars == <<pkStage, pkDevices, pkPicked>>

\* one decode of CheckInQRScan up to its verifyCode call (lines 456-498)
VARIABLES
  exStage,         \* "idle", "decoded" (callback entered), "rejected", "verifying"
  exText,          \* the decodedText the engine reported
  exCode           \* the codeStr handed to verifyCode

exvars == <<exStage, exText, exCode>>

\* the state as one record, so that handlers compose as the code's calls do
Cur ==
  [qrRef |-> qrRef, scanningRef |-> scanningRef, mountedRef |-> mountedRef,
   initializingRef |-> initializingRef, stoppingRef |-> stoppingRef,
   message |-> message, error |-> error, decodedValue |-> decodedValue,
   isScanning |-> isScanning, listening |-> listening, lsnIsScanning |-> lsnIsScanning,
   cleanupArmed |-> cleanupArmed, depIsScanning |-> depIsScanning,
   unmounted |-> unmounted, visibility |-> visibility, eState |-> eState,
   eCam |-> eCam, tracks |-> tracks, inflight |-> inflight, held |-> held,
   sessDecodes |-> sessDecodes, nDecodes |-> nDecodes, faults |-> faults,
   restarts |-> restarts, disposed |-> disposed, td |-> td, stopThrew |-> stopThrew,
   last |-> last]

Set(s) ==
  /\ qrRef' = s.qrRef
  /\ scanningRef' = s.scanningRef
  /\ mountedRef' = s.mountedRef
  /\ initializingRef' = s.initializingRef
  /\ stoppingRef' = s.stoppingRef
  /\ message' = s.message
  /\ error' = s.error
  /\ decodedValue' = s.decodedValue
  /\ isScanning' = s.isScanning
  /\ listening' = s.listening
  /\ lsnIsScanning' = s.lsnIsScanning
  /\ cleanupArmed' = s.cleanupArmed
  /\ depIsScanning' = s.depIsScanning
  /\ unmounted' = s.unmounted
  /\ visibility' = s.visibility
  /\ eState' = s.eState
  /\ eCam' = s.eCam
  /\ tracks' = s.tracks
  /\ inflight' = s.inflight
  /\ held' = s.held
  /\ sessDecodes' = s.sessDecodes
  /\ nDecodes' = s.nDecodes
  /\ faults' = s.faults
  /\ restarts' = s.restarts
  /\ disposed' = s.disposed
  /\ td' = s.td
  /\ stopThrew' = s.stopThrew
  /\ last' = s.last
  /\ UNCHANGED <<swvars, civars, pkvars, exvars>>

\* the record of one handler run: the engine calls it issued (enum, getState,
\* start, stop, clear), whether a startScanning / stopScanning call returned at
\* its guard, whether stopScanning was called, on whose behalf a stop or clear
\* was issued, whether the observer got a decode, whether an engine stop or
\* clear rejected, whether the effect cleanup ran, and whether getFrontCamera
\* threw (empty list or rejected enumeration)
NoCalls ==
  [enum |-> 0, getState |-> 0, start |-> 0, stop |-> 0, clear |-> 0,
   dropStart |-> FALSE, dropStop |-> FALSE, stopCalled |-> FALSE, org |-> "",
   decoded |-> FALSE, threw |-> FALSE, cleanup |-> FALSE, enumFailed |-> FALSE]

\* a handler begins: nothing issued yet
Begin(s) == [s EXCEPT !.last = NoCalls]

Call(o, p, c, g) == [op |-> o, pc |-> p, cam |-> c, org |-> g]
AddCall(s, r) == [s EXCEPT !.inflight = @ (+) SetToBag({r})]
DelCall(s, r) == [s EXCEPT !.inflight = @ (-) SetToBag({r})]
Pending(o, p) == {r \in BagToSet(inflight) : r.op = o /\ r.pc = p}
CountOf(b, o, p) ==
  LET rs == {r \in BagToSet(b) : r.op = o /\ r.pc = p}
      RECURSIVE Sum(_)
      Sum(S) == IF S = {} THEN 0
                ELSE LET r == CHOOSE x \in S : TRUE IN CopiesIn(r, b) + Sum(S \ {r})
  IN Sum(rs)

\* React state setters; React drops an update of an unmounted component
setMessage(s, m) == IF s.unmounted THEN s ELSE [s EXCEPT !.message = m]
setError(s, e) == IF s.unmounted THEN s ELSE [s EXCEPT !.error = e]
setDecodedValue(s, v) == IF s.unmounted THEN s ELSE [s EXCEPT !.decodedValue = v]
setIsScanning(s, v) == IF s.unmounted THEN s ELSE [s EXCEPT !.isScanning = v]

\* qrRef.current.getState?.()
getState(s) == s.eState

\* ------------------------------------------------------------ stopScanning
\* what the caller does once `await stopScanning()` returns: restartScanning
\* arms its 1500 ms timer (lines 965-971); the other callers do nothing
AfterStop(s, org) ==
  IF org = "restart" THEN AddCall(s, Call("timer", "wait", "", "restart")) ELSE s

\* lines 879-881: finally
StopFinally(s, org) == AfterStop([s EXCEPT !.stoppingRef = FALSE], org)

\* lines 855-873: release the residual tracks, report "not scanning"
StopTail(s, org) ==
  LET s1 == [s EXCEPT !.tracks = FALSE]
      s2 == IF s1.mountedRef THEN setIsScanning(s1, FALSE) ELSE s1
  IN StopFinally(s2, org)

\* lines 874-878: catch
StopCatch(s, org) ==
  LET s1 == IF s.mountedRef THEN setError(s, "Failed to stop scanner") ELSE s
  IN StopFinally(s1, org)

\* the guard without its re-entrancy check
StopGuardNoReentry(s) == ~s.qrRef

\* line 839: the guard of stopScanning
StopGuard(s) == ~s.qrRef \/ s.stoppingRef

\* stop and clear issued whatever the engine reports (the unconditional stop
\* that part_001 keeps commented out at its lines 63-72)
StopNeededAlways(state) == TRUE

\* line 847: stop and clear are issued only in these engine states
StopNeeded(state) == state \in {"SCANNING", "PAUSED"}

\* lines 838-849: stopScanning up to its first await
stopScanning(s, org) ==
  IF StopGuard(s)
  THEN AfterStop([s EXCEPT !.last.dropStop = TRUE, !.last.stopCalled = TRUE], org)
  ELSE LET s1 == [s EXCEPT !.stoppingRef = TRUE, !.scanningRef = FALSE,
                           !.last.getState = @ + 1, !.last.stopCalled = TRUE]
       IN IF StopNeeded(getState(s1))
          THEN AddCall([s1 EXCEPT !.last.stop = @ + 1, !.last.org = org,
                                  !.td.stops = IF s1.td.open THEN @ + 1 ELSE @],
                       Call("stop", "stop", "", org))
          ELSE StopTail(s1, org)

\* clear() issued whether or not engine.stop() resolved
stopAfterStopClearsAnyway(s, r, ok) ==
  AddCall([DelCall(s, r) EXCEPT !.last.clear = @ + 1, !.last.org = r.org,
                                !.last.threw = ~ok],
          Call("stop", "clear", "", r.org))

\* lines 849-852: engine.stop() settles; on success clear() is issued
stopAfterStop(s, r, ok) ==
  LET s0 == DelCall(s, r)
  IN IF ok
     THEN AddCall([s0 EXCEPT !.eState = "NOT_STARTED", !.tracks = FALSE,
                             !.held = CountOf(s0.inflight, "start", "engine"),
                             !.last.clear = @ + 1, !.last.org = r.org,
                             !.td.clears = IF s0.td.open THEN @ + 1 ELSE @],
                  Call("stop", "clear", "", r.org))
     ELSE StopCatch([s0 EXCEPT !.stopThrew = TRUE, !.faults = @ + 1,
                               !.last.threw = TRUE], r.org)

\* lines 852-881: engine.clear() settles
stopAfterClear(s, r, ok) ==
  LET s0 == DelCall(s, r)
  IN IF ok THEN StopTail(s0, r.org)
     ELSE StopCatch([s0 EXCEPT !.stopThrew = TRUE, !.faults = @ + 1,
                               !.last.threw = TRUE], r.org)

\* ----------------------------------------------------------- startScanning
\* the guard without its initializingRef check
StartGuardNoInit(s) == ~s.qrRef \/ s.scanningRef \/ ~s.mountedRef

\* line 913: the guard of startScanning
StartGuard(s) == ~s.qrRef \/ s.scanningRef \/ s.initializingRef \/ ~s.mountedRef

\* a finally that leaves initializingRef set
StartFinallyKeepsFlag(s) == s

\* lines 956-958: finally
StartFinally(s) == [s EXCEPT !.initializingRef = FALSE]

\* a catch that reports nothing and leaves scanningRef alone
StartCatchSilent(s) == StartFinally(s)

\* lines 948-955: catch
StartCatch(s) ==
  LET s1 == IF s.mountedRef
            THEN setIsScanning(setMessage(setError(s, "Camera error"),
                                          "Failed to start front camera"), FALSE)
            ELSE s
  IN StartFinally([s1 EXCEPT !.scanningRef = FALSE])

\* lines 912-922: startScanning up to its first await
startScanning(s) ==
  IF StartGuard(s)
  THEN [s EXCEPT !.last.dropStart = TRUE]
  ELSE LET s1 == [s EXCEPT !.initializingRef = TRUE]
           s2 == setIsScanning(setDecodedValue(setError(
                   setMessage(s1, "Starting front camera..."), ""), ""), TRUE)
       IN AddCall([s2 EXCEPT !.last.enum = @ + 1], Call("start", "enum", "", "start"))

\* the start issued without looking at the engine's state
AlreadyScanningNever(state) == FALSE

\* line 930: an engine that already scans is not started again
AlreadyScanning(state) == state = "SCANNING"

\* lines 922-944: getFrontCamera() settles; the engine start is issued
startAfterEnum(s, r, out) ==
  LET s0 == DelCall(s, r)
  IN IF ~out.ok \/ Len(out.devices) = 0
     THEN StartCatch([s0 EXCEPT !.last.enumFailed = TRUE])
     ELSE LET id == getFrontCamera(out.devices)
              s1 == [s0 EXCEPT !.last.getState = @ + 1]
          IN IF id = "" THEN StartCatch(s0)
             ELSE IF AlreadyScanning(getState(s1)) THEN StartFinally(s1)
             ELSE AddCall([s1 EXCEPT !.last.start = @ + 1, !.held = @ + 1],
                          Call("start", "engine", id, "start"))

\* lines 934-958: qrRef.current.start() settles
startAfterEngine(s, r, ok) ==
  LET s0 == DelCall(s, r)
  IN IF ok
     THEN LET s1 == [s0 EXCEPT !.eState = "SCANNING", !.eCam = r.cam, !.tracks = TRUE,
                               !.sessDecodes = 0, !.scanningRef = TRUE,
                               !.td.open = FALSE]
          IN StartFinally(setMessage(s1, "Point QR code toward the front camera"))
     ELSE StartCatch([s0 EXCEPT !.held = IF @ > 0 THEN @ - 1 ELSE 0])

\* ---------------------------------------------------------- handleQrDecode
\* lines 887-907
handleQrDecode(s, text) ==
  IF ~s.mountedRef THEN s
  ELSE LET s1 == setIsScanning(setMessage(setDecodedValue(s, text),
                                          "QR Code Successfully Scanned!"), FALSE)
           s2 == [s1 EXCEPT !.sessDecodes = @ + 1, !.last.decoded = TRUE]
       IN stopScanning(s2, "decode")

\* --------------------------------------------------------- restartScanning
\* lines 964-972, up to the await of stopScanning
restartScanning(s) == stopScanning(s, "restart")

\* lines 967-971: the timer fires
restartTimer(s, r) ==
  LET s0 == DelCall(s, r)
  IN IF s0.mountedRef THEN startScanning(s0) ELSE s0

\* -------------------------------------------------- handleVisibilityChange
\* a hidden page that stops nothing
HiddenStopsNever(s) == FALSE

\* line 983: the page is hidden while scanningRef is set
HiddenStops(s) == s.visibility = "hidden" /\ s.scanningRef

\* lines 977-986; isScanning is the value the listener's closure captured
handleVisibilityChange(s) ==
  IF ~s.mountedRef THEN s
  ELSE IF s.visibility = "visible" /\ ~s.scanningRef /\ s.lsnIsScanning
          /\ ~s.initializingRef
       THEN startScanning(setMessage(s, "Restarting front camera..."))
       ELSE IF HiddenStops(s)
            THEN stopScanning(s, "visibility")
            ELSE s

\* ------------------------------------------------------- the mount effect
\* lines 1014-1025: the cleanup the effect returns
effectCleanup(s) ==
  LET s1 == [s EXCEPT !.mountedRef = FALSE, !.initializingRef = FALSE,
                      !.listening = FALSE, !.disposed = TRUE, !.last.cleanup = TRUE,
                      !.td = [scan |-> s.scanningRef,
                              eng |-> s.eState = "SCANNING",
                              stopping |-> CountOf(s.inflight, "stop", "stop") > 0,
                              clearing |-> CountOf(s.inflight, "stop", "clear") > 0,
                              starting |-> CountOf(s.inflight, "start", "enum")
                                           + CountOf(s.inflight, "start", "engine") > 0,
                              open |-> TRUE,
                              stops |-> CountOf(s.inflight, "stop", "stop"),
                              clears |-> 0]]
  IN IF s1.qrRef /\ s1.scanningRef THEN stopScanning(s1, "cleanup") ELSE s1

\* lines 991-1011: the effect body on the first run (qrRef.current is null)
effectMount(s) ==
  LET s1 == [s EXCEPT !.mountedRef = TRUE, !.initializingRef = FALSE,
                      !.stoppingRef = FALSE, !.qrRef = TRUE]
      s2 == startScanning(s1)
  IN [s2 EXCEPT !.listening = TRUE, !.lsnIsScanning = s.isScanning,
                !.cleanupArmed = TRUE, !.depIsScanning = s.isScanning]

\* lines 991-995, 1026: a dependency changed (handleVisibilityChange is rebuilt
\* when isScanning changes): React runs the previous cleanup, then the effect
\* body, which returns at line 994 without registering anything
effectRerun(s) ==
  LET s1 == IF s.cleanupArmed THEN effectCleanup(s) ELSE s
  IN [s1 EXCEPT !.cleanupArmed = FALSE, !.depIsScanning = s.isScanning]

\* React unmounts the component: the cleanup of the last effect run, if any
effectUnmount(s) ==
  LET s1 == IF s.cleanupArmed THEN effectCleanup(s) ELSE s
  IN [s1 EXCEPT !.cleanupArmed = FALSE, !.unmounted = TRUE]

\* ----------------------------------------------------------------- actions
GInit ==
  /\ qrRef = FALSE
  /\ scanningRef = FALSE
  /\ mountedRef = TRUE
  /\ initializingRef = FALSE
  /\ stoppingRef = FALSE
  /\ message = "Initializing front camera..."
  /\ error = ""
  /\ decodedValue = ""
  /\ isScanning = TRUE
  /\ listening = FALSE
  /\ lsnIsScanning = TRUE
  /\ cleanupArmed = FALSE
  /\ depIsScanning = TRUE
  /\ unmounted = FALSE
  /\ visibility = "visible"
  /\ eState = "NOT_STARTED"
  /\ eCam = ""
  /\ tracks = FALSE
  /\ inflight = EmptyBag
  /\ held = 0
  /\ sessDecodes = 0
  /\ nDecodes = 0
  /\ faults = 0
  /\ restarts = 0
  /\ disposed = FALSE
  /\ td = [scan |-> FALSE, eng |-> FALSE, stopping |-> FALSE, clearing |-> FALSE,
           starting |-> FALSE, open |-> FALSE,
           stops |-> 0, clears |-> 0]
  /\ stopThrew = FALSE
  /\ last = NoCalls

\* the component is mounted and its effect runs for the first time
Mount ==
  /\ ~qrRef /\ ~unmounted
  /\ Set(effectMount(Begin(Cur)))

\* Html5Qrcode.getCameras() settles for a startScanning call
StartEnumDone ==
  \E r \in Pending("start", "enum") : \E out \in EnumOutcomes :
    Set(startAfterEnum(Begin(Cur), r, out))

\* qrRef.current.start() settles
StartEngineDone ==
  \E r \in Pending("start", "engine") : \E ok \in BOOLEAN :
    Set(startAfterEngine(Begin(Cur), r, ok))

\* qrRef.current.stop() settles
StopEngineDone ==
  \E r \in Pending("stop", "stop") : \E ok \in BOOLEAN :
    /\ ok \/ faults < MaxFaults
    /\ Set(stopAfterStop(Begin(Cur), r, ok))

\* qrRef.current.clear() settles
ClearDone ==
  \E r \in Pending("stop", "clear") : \E ok \in BOOLEAN :
    /\ ok \/ faults < MaxFaults
    /\ Set(stopAfterClear(Begin(Cur), r, ok))

\* the engine reports a decoded payload to the registered callback
Decode ==
  /\ eState = "SCANNING"
  /\ nDecodes < MaxDecodes
  /\ \E text \in Texts :
       Set(handleQrDecode([Begin(Cur) EXCEPT !.nDecodes = @ + 1], text))

\* the page's visibility changes; the listener runs if it is registered
VisibilityChange ==
  \E v \in {"visible", "hidden"} :
    /\ v # visibility
    /\ Set(IF listening
           THEN handleVisibilityChange([Begin(Cur) EXCEPT !.visibility = v])
           ELSE [Begin(Cur) EXCEPT !.visibility = v])

\* the "Scan Another QR Code" button (line 1165-1167) is pressed
RestartClick ==
  /\ qrRef /\ ~unmounted
  /\ ~isScanning /\ decodedValue # ""
  /\ restarts < MaxRestarts
  /\ Set(restartScanning([Begin(Cur) EXCEPT !.restarts = @ + 1]))

\* the 1500 ms timer of restartScanning fires
TimerFire ==
  \E r \in Pending("timer", "wait") :
    Set(restartTimer(Begin(Cur), r))

\* React re-runs the mount effect after a render that changed isScanning
Rerender ==
  /\ qrRef /\ ~unmounted
  /\ isScanning # depIsScanning
  /\ Set(effectRerun(Begin(Cur)))

\* the user leaves the screen (navigate('/'), line 1042)
Unmount ==
  /\ qrRef /\ ~unmounted
  /\ Set(effectUnmount(Begin(Cur)))

GNext ==
  \/ Mount
  \/ StartEnumDone
  \/ StartEngineDone
  \/ StopEngineDone
  \/ ClearDone
  \/ Decode
  \/ VisibilityChange
  \/ RestartClick
  \/ TimerFire
  \/ Rerender
  \/ Unmount


\* ======================================================================
\* The camera-switching QrScanner (src/unnamed/part_001)
\* ======================================================================
\* in-flight camera-switching calls at one time
MaxSwCalls == 2
\* the count of outstanding engine starts saturates here
HeldCap == 3

SwCur ==
  [qrRef |-> swQrRef, scanningRef |-> swScanningRef, stopOnScan |-> swStopOnScan,
   message |-> swMessage, error |-> swError, cameras |-> swCameras,
   activeId |-> swActiveId, listening |-> swListening, unmounted |-> swUnmounted,
   visibility |-> swVisibility, eState |-> swEState, inflight |-> swInflight,
   held |-> swHeld, faults |-> swFaults, last |-> swLast]

SwSet(s) ==
  /\ swQrRef' = s.qrRef
  /\ swScanningRef' = s.scanningRef
  /\ swStopOnScan' = s.stopOnScan
  /\ swMessage' = s.message
  /\ swError' = s.error
  /\ swCameras' = s.cameras
  /\ swActiveId' = s.activeId
  /\ swListening' = s.listening
  /\ swUnmounted' = s.unmounted
  /\ swVisibility' = s.visibility
  /\ swEState' = s.eState
  /\ swInflight' = s.inflight
  /\ swHeld' = s.held
  /\ swFaults' = s.faults
  /\ swLast' = s.last
  /\ UNCHANGED <<gvars, civars, pkvars, exvars>>

\* the record of one handler run: what happened (ev), to which call (dev: the
\* deviceId argument, "" for none; depth: 0 for a call from outside, 1 for the
\* fallback's recursive call), the error's name, the enumeration's result, the
\* calls issued, the device an issued start names, whether a rejection left
\* the handler uncaught, the onDecode calls made, the text the engine decoded
\* and the text handed to onDecode
SwNoCalls ==
  [ev |-> "", dev |-> "", depth |-> 0, err |-> "", listed |-> <<>>, listOk |-> TRUE,
   enum |-> 0, start |-> 0, stop |-> 0, startDev |-> "",
   escaped |-> FALSE, notified |-> 0, decodedText |-> "", notifiedText |-> ""]

SwBegin(s) == [s EXCEPT !.last = SwNoCalls]

SwCall(o, p, d, n, g) == [op |-> o, pc |-> p, dev |-> d, depth |-> n, org |-> g]
SwPending(o, p) == {r \in BagToSet(swInflight) : r.op = o /\ r.pc = p}

\* React state setters; React drops an update of an unmounted component
swSet(s, f, v) == IF s.unmounted THEN s ELSE [s EXCEPT ![f] = v]

\* /front|user|selfie/i.test(label), lines 21 and 53
FrontRegexSw(label) ==
  HasSub(label, PatFront) \/ HasSub(label, PatUser) \/ HasSub(label, PatSelfie)

\* devices.find(frontLike) || devices[0], as an id (lines 21-22, 53-54)
frontLikeId(devices) ==
  LET hits == {i \in 1..Len(devices) : FrontRegexSw(devices[i].label)}
  IN IF hits = {} THEN devices[1].id
     ELSE devices[CHOOSE i \in hits : \A k \in hits : i <= k].id

\* the errors qrRef.current.start() may reject with (err.name)
StartErrors == {"OverconstrainedError", "NotAllowedError"}

\* the fallback taken for explicit device ids as well
FallbackAlways(deviceId, errName) == errName = "OverconstrainedError"

\* line 50: the failure that sends start() to its fallback
FallbackWanted(deviceId, errName) == deviceId = "" /\ errName = "OverconstrainedError"

\* lines 30-45: start(deviceId) up to its await; "" stands for no deviceId,
\* for which the engine is asked for { facingMode: { exact: 'user' } }
swStart(s, deviceId, depth) ==
  IF ~s.qrRef THEN s
  ELSE [s EXCEPT !.inflight = @ (+) SetToBag({SwCall("start", "engine", deviceId, depth, "")}),
                 !.held = IF @ < HeldCap THEN @ + 1 ELSE @,
                 !.last.start = @ + 1,
                 !.last.startDev = IF deviceId = "" THEN "facingMode:user" ELSE deviceId]

\* lines 46-60: qrRef.current.start() settles
swStartSettled(s, r, errName) ==
  LET s0 == [s EXCEPT !.inflight = @ (-) SetToBag({r}),
                      !.last.ev = IF errName = "" THEN "started" ELSE "startFailed",
                      !.last.dev = r.dev, !.last.depth = r.depth, !.last.err = errName]
  IN IF errName = ""
     THEN swSet(swSet([s0 EXCEPT !.scanningRef = TRUE, !.eState = "SCANNING"],
                      "message", "Point the QR code toward the camera"), "error", "")
     ELSE LET s1 == [s0 EXCEPT !.held = IF @ > 0 THEN @ - 1 ELSE 0]
          IN IF FallbackWanted(r.dev, errName)
             THEN [s1 EXCEPT !.inflight = @ (+) SetToBag({SwCall("start", "enum", r.dev, r.depth, "")}),
                             !.last.enum = @ + 1]
             ELSE swSet(swSet(s1, "error", "Camera error"), "message",
                        "Camera failed to start")

\* lines 51-59: the fallback's Html5Qrcode.getCameras() settles; a rejection is
\* not caught (the await is inside the catch block) and leaves start() rejected
swFallbackSettled(s, r, out) ==
  LET s0 == [s EXCEPT !.inflight = @ (-) SetToBag({r}),
                      !.last.ev = "fallbackEnum", !.last.dev = r.dev,
                      !.last.depth = r.depth, !.last.listed = out.devices,
                      !.last.listOk = out.ok]
  IN IF ~out.ok THEN [s0 EXCEPT !.last.escaped = TRUE]
     ELSE IF Len(out.devices) > 0
          THEN swStart(swSet(s0, "activeId", frontLikeId(out.devices)),
                       frontLikeId(out.devices), r.depth + 1)
          ELSE swSet(swSet(s0, "error", "Camera error"), "message",
                     "Camera failed to start")

\* what the caller does once `await stop()` returns: handleSwitch starts the
\* chosen device (line 112)
swAfterStop(s, r) == IF r.org = "switch" THEN swStart(s, r.dev, 0) ELSE s

\* line 78
SwStopNeeded(state) == state \in {"SCANNING", "PAUSED"}

\* lines 74-79: stop() up to its first await
swStop(s, org, dev) ==
  IF ~s.qrRef THEN swAfterStop(s, SwCall("stop", "", dev, 0, org))
  ELSE IF SwStopNeeded(s.eState)
       THEN [s EXCEPT !.inflight = @ (+) SetToBag({SwCall("stop", "stop", dev, 0, org)}),
                      !.last.stop = @ + 1]
       ELSE swAfterStop(s, SwCall("stop", "", dev, 0, org))

\* lines 79-86: qrRef.current.stop() settles
swStopSettled(s, r, ok) ==
  LET s0 == [s EXCEPT !.inflight = @ (-) SetToBag({r}), !.last.ev = "stopSettled"]
  IN IF ok
     THEN [s0 EXCEPT !.eState = "NOT_STARTED",
                     !.held = CountOf(s0.inflight, "start", "engine"),
                     !.inflight = @ (+) SetToBag({[r EXCEPT !.pc = "clear"]})]
     ELSE swAfterStop(swSet([s0 EXCEPT !.faults = @ + 1], "error",
                            "Failed to stop scanner"), r)

\* lines 80-86: qrRef.current.clear() settles
swClearSettled(s, r, ok) ==
  LET s0 == [s EXCEPT !.inflight = @ (-) SetToBag({r}), !.last.ev = "clearSettled"]
  IN IF ok
     THEN swAfterStop([s0 EXCEPT !.scanningRef = FALSE], r)
     ELSE swAfterStop(swSet([s0 EXCEPT !.faults = @ + 1], "error",
                            "Failed to stop scanner"), r)

\* a decode that always stops the scanner
StopAfterDecodeAlways(s) == TRUE

\* line 42: if (stopOnScan)
StopAfterDecode(s) == s.stopOnScan

\* lines 38-43: the decode callback registered with the engine
swDecoded(s, text) ==
  LET s1 == swSet(s, "message", "QR value")
      s2 == [s1 EXCEPT !.last.notified = @ + 1, !.last.ev = "decoded",
                       !.last.decodedText = text, !.last.notifiedText = text]
  IN IF StopAfterDecode(s2) THEN swStop(s2, "decode", "") ELSE s2

\* lines 13-28: populateCameras, once Html5Qrcode.getCameras() settles; activeId
\* is the value of the render that created the function (the first: undefined)
swPopulated(s, r, out) ==
  LET s0 == [s EXCEPT !.inflight = @ (-) SetToBag({r}), !.last.ev = "populated",
                      !.last.listed = out.devices, !.last.listOk = out.ok]
  IN IF ~out.ok THEN swSet(s0, "error", "Camera enumeration failed")
     ELSE LET s1 == swSet(swSet(s0, "cameras", out.devices), "error", "")
          IN IF r.dev = "" /\ Len(out.devices) > 0
             THEN swSet(s1, "activeId", frontLikeId(out.devices))
             ELSE s1

\* lines 94-99: onVis; activeId is the first render's (undefined)
swOnVis(s) ==
  IF s.visibility = "visible" /\ ~s.scanningRef
  THEN swStart(swSet(s, "message", "Re-initialising camera"), "", 0)
  ELSE s

\* lines 109-113: handleSwitch
handleSwitch(s, id) ==
  swStop([swSet(s, "activeId", id) EXCEPT !.last.ev = "switch"], "switch", id)

\* lines 89-101: the mount effect
swEffectMount(s) ==
  LET s1 == [s EXCEPT !.qrRef = TRUE,
                      !.inflight = @ (+) SetToBag({SwCall("populate", "enum", s.activeId, 0, "")}),
                      !.last.enum = @ + 1]
  IN [swStart(s1, "", 0) EXCEPT !.listening = TRUE]

\* lines 102-105: the effect cleanup
swEffectCleanup(s) ==
  swStop([s EXCEPT !.listening = FALSE, !.unmounted = TRUE], "unmount", "")

\* decoded payloads the engine may report to the camera-switching QrScanner
SwTexts == {"qr", "1234"}

SwInit ==
  /\ swQrRef = FALSE
  /\ swScanningRef = FALSE
  /\ swStopOnScan = FALSE
  /\ swMessage = "Grant camera permission"
  /\ swError = ""
  /\ swCameras = <<>>
  /\ swActiveId = ""
  /\ swListening = FALSE
  /\ swUnmounted = FALSE
  /\ swVisibility = "visible"
  /\ swEState = "NOT_STARTED"
  /\ swInflight = EmptyBag
  /\ swHeld = 0
  /\ swFaults = 0
  /\ swLast = SwNoCalls

SwRoom == BagCardinality(swInflight) < MaxSwCalls

SwMount ==
  /\ ~swQrRef /\ ~swUnmounted
  /\ SwSet(swEffectMount(SwBegin(SwCur)))

SwPopulateDone ==
  \E r \in SwPending("populate", "enum") : \E out \in EnumOutcomes :
    SwSet(swPopulated(SwBegin(SwCur), r, out))

SwStartDone ==
  \E r \in SwPending("start", "engine") : \E e \in StartErrors \cup {""} :
    SwSet(swStartSettled(SwBegin(SwCur), r, e))

SwFallbackEnumDone ==
  \E r \in SwPending("start", "enum") : \E out \in EnumOutcomes :
    SwSet(swFallbackSettled(SwBegin(SwCur), r, out))

SwStopDone ==
  \E r \in SwPending("stop", "stop") : \E ok \in BOOLEAN :
    /\ ok \/ swFaults < MaxFaults
    /\ SwSet(swStopSettled(SwBegin(SwCur), r, ok))

SwClearDone ==
  \E r \in SwPending("stop", "clear") : \E ok \in BOOLEAN :
    /\ ok \/ swFaults < MaxFaults
    /\ SwSet(swClearSettled(SwBegin(SwCur), r, ok))

SwDecode ==
  /\ swEState = "SCANNING"
  /\ SwRoom
  /\ \E text \in SwTexts : SwSet(swDecoded(SwBegin(SwCur), text))

SwVisibilityChange ==
  \E v \in {"visible", "hidden"} :
    /\ v # swVisibility
    /\ SwRoom
    /\ SwSet(IF swListening
             THEN swOnVis([SwBegin(SwCur) EXCEPT !.visibility = v])
             ELSE [SwBegin(SwCur) EXCEPT !.visibility = v])

\* the <select> (lines 127-145) is rendered for more than one camera
SwSwitch ==
  /\ swQrRef /\ ~swUnmounted
  /\ Len(swCameras) > 1
  /\ SwRoom
  /\ \E i \in 1..Len(swCameras) :
       SwSet(handleSwitch(SwBegin(SwCur), swCameras[i].id))

SwUnmount ==
  /\ swQrRef /\ ~swUnmounted
  /\ SwSet(swEffectCleanup(SwBegin(SwCur)))

SwNext ==
  \/ SwMount
  \/ SwPopulateDone
  \/ SwStartDone
  \/ SwFallbackEnumDone
  \/ SwStopDone
  \/ SwClearDone
  \/ SwDecode
  \/ SwVisibilityChange
  \/ SwSwitch
  \/ SwUnmount

\* ======================================================================
\* CheckInQRScan (src/src/QrScanner.jsx, lines 322-626)
\* ======================================================================
\* decode callbacks the engine delivers to CheckInQRScan in one run
MaxCiDecodes == 2

Digits == {"0", "1", "2", "3", "4", "5", "6", "7", "8", "9"}

\* \w of the pattern language: letters, digits and the underscore
WordChars == UpperChars \cup {LowerOf[c] : c \in UpperChars} \cup Digits \cup {"_"}

\* \d{4} matches at position i
Digits4At(s, i) ==
  /\ i >= 1
  /\ i + 3 <= Len(s)
  /\ \A j \in 0..3 : s[i + j] \in Digits

\* \b holds between positions i - 1 and i of s (i in 1..Len(s) + 1)
WordBoundary(s, i) ==
  LET before == i > 1 /\ s[i - 1] \in WordChars
      after == i <= Len(s) /\ s[i] \in WordChars
  IN before # after

\* decodedText.match(/\b\d{4}\b/): the positions where it matches
BoundedHits(s) ==
  {i \in 1..Len(s) : Digits4At(s, i) /\ WordBoundary(s, i) /\ WordBoundary(s, i + 4)}

\* decodedText.match(/\d{4}/): the positions where it matches
UnboundedHits(s) == {i \in 1..Len(s) : Digits4At(s, i)}

\* /^\d{4}$/.test(decodedText)
WholeIsCode(s) == Len(s) = 4 /\ Digits4At(s, 1)

\* String.prototype.match without the g flag: the leftmost match
Leftmost(hits) == CHOOSE i \in hits : \A k \in hits : i <= k

\* the unanchored pattern tried before the word-bounded one
fourDigitMatchUnboundedFirst(s) ==
  IF UnboundedHits(s) # {}
  THEN SubSeq(s, Leftmost(UnboundedHits(s)), Leftmost(UnboundedHits(s)) + 3)
  ELSE <<>>

\* lines 466-479: fourDigitMatch[0], or <<>> for no match (null)
fourDigitMatch(s) ==
  IF BoundedHits(s) # {} THEN SubSeq(s, Leftmost(BoundedHits(s)), Leftmost(BoundedHits(s)) + 3)
  ELSE IF UnboundedHits(s) # {}
       THEN SubSeq(s, Leftmost(UnboundedHits(s)), Leftmost(UnboundedHits(s)) + 3)
       ELSE IF WholeIsCode(s) THEN s ELSE <<>>

\* decoded payloads the engine may report to CheckInQRScan
CiTexts ==
  { <<"a", "b", "c">>,
    <<"1", "2", "3", "4">>,
    <<"1", "2", "3", "4", "5">>,
    <<"1", "2", "3", "4", "5", " ", "6", "7", "8", "9">> }

\* how the verification request may end: an accepting response, a rejecting
\* response, a network failure
VerifyOutcomes == {"accepted", "rejected", "failed"}

CiCur ==
  [qrRef |-> ciQrRef, scanningRef |-> ciScanningRef, mountedRef |-> ciMountedRef,
   initializingRef |-> ciInitializingRef, stoppingRef |-> ciStoppingRef,
   isScanning |-> ciIsScanning, isLoading |-> ciIsLoading,
   toastMessage |-> ciToastMessage, listening |-> ciListening,
   lsnIsScanning |-> ciLsnIsScanning, cleanupArmed |-> ciCleanupArmed,
   depIsScanning |-> ciDepIsScanning, unmounted |-> ciUnmounted,
   visibility |-> ciVisibility, eState |-> ciEState, inflight |-> ciInflight,
   sessVerifies |-> ciSessVerifies, decodes |-> ciDecodes, faults |-> ciFaults,
   disposed |-> ciDisposed, last |-> ciLast]

CiSet(s) ==
  /\ ciQrRef' = s.qrRef
  /\ ciScanningRef' = s.scanningRef
  /\ ciMountedRef' = s.mountedRef
  /\ ciInitializingRef' = s.initializingRef
  /\ ciStoppingRef' = s.stoppingRef
  /\ ciIsScanning' = s.isScanning
  /\ ciIsLoading' = s.isLoading
  /\ ciToastMessage' = s.toastMessage
  /\ ciListening' = s.listening
  /\ ciLsnIsScanning' = s.lsnIsScanning
  /\ ciCleanupArmed' = s.cleanupArmed
  /\ ciDepIsScanning' = s.depIsScanning
  /\ ciUnmounted' = s.unmounted
  /\ ciVisibility' = s.visibility
  /\ ciEState' = s.eState
  /\ ciInflight' = s.inflight
  /\ ciSessVerifies' = s.sessVerifies
  /\ ciDecodes' = s.decodes
  /\ ciFaults' = s.faults
  /\ ciDisposed' = s.disposed
  /\ ciLast' = s.last
  /\ UNCHANGED <<gvars, swvars, pkvars, exvars>>

\* the record of one handler run: what happened (ev), the decoded text and
\* the code extracted from it, the verifyCode and showToast calls made, the
\* engine calls issued, whether stopScanning was called, whether the handler
\* ran after the effect cleanup
CiNoCalls ==
  [ev |-> "", text |-> <<>>, code |-> <<>>, verify |-> 0, toast |-> 0,
   enum |-> 0, getState |-> 0, start |-> 0, stop |-> 0, clear |-> 0,
   stopCalled |-> FALSE, afterCleanup |-> FALSE]

CiBegin(s) == [s EXCEPT !.last = CiNoCalls]

CiCall(o, p, c) == [op |-> o, pc |-> p, code |-> c]
CiAdd(s, r) == [s EXCEPT !.inflight = @ (+) SetToBag({r})]
CiDel(s, r) == [s EXCEPT !.inflight = @ (-) SetToBag({r})]
CiPending(o, p) == {r \in BagToSet(ciInflight) : r.op = o /\ r.pc = p}

\* React state setters; React drops an update of an unmounted component
ciSetState(s, f, v) == IF s.unmounted THEN s ELSE [s EXCEPT ![f] = v]

\* lines 333-336: showToast
showToast(s, msg) ==
  CiAdd([ciSetState(s, "toastMessage", msg) EXCEPT !.last.toast = @ + 1],
        CiCall("timer", "toast", <<>>))

\* lines 338-345: verifyCode up to its await of fetch
verifyCode(s, codeStr) ==
  CiAdd([ciSetState(s, "isLoading", TRUE) EXCEPT !.last.verify = @ + 1,
                                                 !.sessVerifies = @ + 1],
        CiCall("verify", "fetch", codeStr))

\* lines 353-367: the request settles
verifySettled(s, r, outcome) ==
  LET s0 == [CiDel(s, r) EXCEPT !.last.ev = "verified"]
      s1 == IF outcome = "accepted" THEN CiAdd(s0, CiCall("timer", "nav", r.code))
            ELSE showToast(s0, "Code Not Recognized")
  IN ciSetState(s1, "isLoading", FALSE)

\* lines 407-418: stopScanning up to its first await
ciStopScanning(s) ==
  IF ~s.qrRef \/ s.stoppingRef THEN [s EXCEPT !.last.stopCalled = TRUE]
  ELSE LET s1 == [s EXCEPT !.stoppingRef = TRUE, !.scanningRef = FALSE,
                           !.last.getState = @ + 1, !.last.stopCalled = TRUE]
       IN IF s1.eState \in {"SCANNING", "PAUSED"}
          THEN CiAdd([s1 EXCEPT !.last.stop = @ + 1], CiCall("stop", "stop", <<>>))
          ELSE [(IF s1.mountedRef THEN ciSetState(s1, "isScanning", FALSE) ELSE s1)
                  EXCEPT !.stoppingRef = FALSE]

\* lines 418-450: qrRef.current.stop() settles
ciStopSettled(s, r, ok) ==
  LET s0 == [CiDel(s, r) EXCEPT !.last.ev = "stopSettled"]
  IN IF ok
     THEN CiAdd([s0 EXCEPT !.eState = "NOT_STARTED", !.last.clear = @ + 1],
                CiCall("stop", "clear", <<>>))
     ELSE [s0 EXCEPT !.stoppingRef = FALSE, !.faults = @ + 1]

\* lines 421-450: qrRef.current.clear() settles
ciClearSettled(s, r, ok) ==
  LET s0 == [CiDel(s, r) EXCEPT !.last.ev = "clearSettled"]
  IN IF ok
     THEN [(IF s0.mountedRef THEN ciSetState(s0, "isScanning", FALSE) ELSE s0)
             EXCEPT !.stoppingRef = FALSE]
     ELSE [s0 EXCEPT !.stoppingRef = FALSE, !.faults = @ + 1]

\* every decode handed on, matched or not
NoMatchNever(m) == FALSE

\* line 481: if (!fourDigitMatch)
NoMatch(m) == m = <<>>

\* lines 456-507: handleQrDecode
ciHandleQrDecode(s, decodedText) ==
  LET s0 == [s EXCEPT !.last.ev = "decoded", !.last.text = decodedText,
                      !.last.code = fourDigitMatch(decodedText),
                      !.last.afterCleanup = s.disposed]
  IN IF NoMatch(fourDigitMatch(decodedText))
     THEN showToast(s0, "Invalid QR Code - Please scan a valid 4-digit code")
     ELSE ciStopScanning(ciSetState(verifyCode(s0, fourDigitMatch(decodedText)),
                                    "isScanning", FALSE))

\* lines 548-558: catch and finally of startScanning
ciStartFailed(s) ==
  [(IF s.mountedRef THEN ciSetState(s, "isScanning", FALSE) ELSE s)
     EXCEPT !.scanningRef = FALSE, !.initializingRef = FALSE]

\* lines 512-522: startScanning up to its first await
ciStartScanning(s) ==
  IF ~s.qrRef \/ s.scanningRef \/ s.initializingRef \/ ~s.mountedRef THEN s
  ELSE CiAdd([ciSetState([s EXCEPT !.initializingRef = TRUE], "isScanning", TRUE)
                EXCEPT !.last.enum = @ + 1],
             CiCall("start", "enum", <<>>))

\* lines 522-544: getFrontCamera() settles
ciStartAfterEnum(s, r, out) ==
  LET s0 == [CiDel(s, r) EXCEPT !.last.ev = "enumSettled"]
  IN IF ~out.ok \/ Len(out.devices) = 0 THEN ciStartFailed(s0)
     ELSE IF getFrontCamera(out.devices) = "" THEN ciStartFailed(s0)
     ELSE LET s1 == [s0 EXCEPT !.last.getState = @ + 1]
          IN IF s1.eState = "SCANNING" THEN [s1 EXCEPT !.initializingRef = FALSE]
             ELSE CiAdd([s1 EXCEPT !.last.start = @ + 1], CiCall("start", "engine", <<>>))

\* lines 534-558: qrRef.current.start() settles
ciStartAfterEngine(s, r, ok) ==
  LET s0 == [CiDel(s, r) EXCEPT !.last.ev = "startSettled"]
  IN IF ok
     THEN [s0 EXCEPT !.eState = "SCANNING", !.scanningRef = TRUE,
                     !.initializingRef = FALSE, !.sessVerifies = 0]
     ELSE ciStartFailed(s0)

\* lines 577-586: handleVisibilityChange; isScanning is the closure's value
ciHandleVisibilityChange(s) ==
  IF ~s.mountedRef THEN s
  ELSE IF s.visibility = "visible" /\ ~s.scanningRef /\ s.lsnIsScanning
          /\ ~s.initializingRef
       THEN ciStartScanning(s)
       ELSE IF s.visibility = "hidden" /\ s.scanningRef THEN ciStopScanning(s)
            ELSE s

\* lines 614-625: the cleanup the effect returns
ciEffectCleanup(s) ==
  LET s1 == [s EXCEPT !.mountedRef = FALSE, !.initializingRef = FALSE,
                      !.listening = FALSE, !.disposed = TRUE]
  IN IF s1.qrRef /\ s1.scanningRef THEN ciStopScanning(s1) ELSE s1

\* lines 591-611: the effect body on the first run
ciEffectMount(s) ==
  LET s1 == [s EXCEPT !.mountedRef = TRUE, !.initializingRef = FALSE,
                      !.stoppingRef = FALSE, !.qrRef = TRUE]
  IN [ciStartScanning(s1) EXCEPT !.listening = TRUE, !.lsnIsScanning = s.isScanning,
                                 !.cleanupArmed = TRUE, !.depIsScanning = s.isScanning]

\* lines 591-595, 626: a dependency changed (handleVisibilityChange is rebuilt
\* when isScanning changes): the previous cleanup runs, then the effect body
\* returns at line 594
ciEffectRerun(s) ==
  [(IF s.cleanupArmed THEN ciEffectCleanup(s) ELSE s)
     EXCEPT !.cleanupArmed = FALSE, !.depIsScanning = s.isScanning,
            !.last.ev = "rerun"]

\* React unmounts the component
ciEffectUnmount(s) ==
  [(IF s.cleanupArmed THEN ciEffectCleanup(s) ELSE s)
     EXCEPT !.cleanupArmed = FALSE, !.unmounted = TRUE, !.last.ev = "unmount"]

CiInit ==
  /\ ciQrRef = FALSE
  /\ ciScanningRef = FALSE
  /\ ciMountedRef = TRUE
  /\ ciInitializingRef = FALSE
  /\ ciStoppingRef = FALSE
  /\ ciIsScanning = TRUE
  /\ ciIsLoading = FALSE
  /\ ciToastMessage = ""
  /\ ciListening = FALSE
  /\ ciLsnIsScanning = TRUE
  /\ ciCleanupArmed = FALSE
  /\ ciDepIsScanning = TRUE
  /\ ciUnmounted = FALSE
  /\ ciVisibility = "visible"
  /\ ciEState = "NOT_STARTED"
  /\ ciInflight = EmptyBag
  /\ ciSessVerifies = 0
  /\ ciDecodes = 0
  /\ ciFaults = 0
  /\ ciDisposed = FALSE
  /\ ciLast = CiNoCalls

CiMount ==
  /\ ~ciQrRef /\ ~ciUnmounted
  /\ CiSet(ciEffectMount(CiBegin(CiCur)))

CiStartEnumDone ==
  \E r \in CiPending("start", "enum") : \E out \in EnumOutcomes :
    CiSet(ciStartAfterEnum(CiBegin(CiCur), r, out))

CiStartEngineDone ==
  \E r \in CiPending("start", "engine") : \E ok \in BOOLEAN :
    CiSet(ciStartAfterEngine(CiBegin(CiCur), r, ok))

CiStopDone ==
  \E r \in CiPending("stop", "stop") : \E ok \in BOOLEAN :
    /\ ok \/ ciFaults < MaxFaults
    /\ CiSet(ciStopSettled(CiBegin(CiCur), r, ok))

CiClearDone ==
  \E r \in CiPending("stop", "clear") : \E ok \in BOOLEAN :
    /\ ok \/ ciFaults < MaxFaults
    /\ CiSet(ciClearSettled(CiBegin(CiCur), r, ok))

\* the engine reports a decoded payload to the registered callback
CiDecode ==
  /\ ciEState = "SCANNING"
  /\ ciDecodes < MaxCiDecodes
  /\ \E text \in CiTexts :
       CiSet(ciHandleQrDecode([CiBegin(CiCur) EXCEPT !.decodes = @ + 1], text))

\* the verification request settles
CiVerifyDone ==
  \E r \in CiPending("verify", "fetch") : \E outcome \in VerifyOutcomes :
    CiSet(verifySettled(CiBegin(CiCur), r, outcome))

\* line 335: the 4000 ms timer of showToast fires
CiToastExpire ==
  \E r \in CiPending("timer", "toast") :
    CiSet(ciSetState([CiDel(CiBegin(CiCur), r) EXCEPT !.last.ev = "toastExpired"],
                     "toastMessage", ""))

\* lines 355-357: the 1000 ms timer of verifyCode fires and navigates away,
\* which unmounts the screen
CiNavigate ==
  \E r \in CiPending("timer", "nav") :
    CiSet(IF ciUnmounted THEN [CiDel(CiBegin(CiCur), r) EXCEPT !.last.ev = "navigated"]
          ELSE ciEffectUnmount(CiDel(CiBegin(CiCur), r)))

CiVisibilityChange ==
  \E v \in {"visible", "hidden"} :
    /\ v # ciVisibility
    /\ CiSet(IF ciListening
             THEN ciHandleVisibilityChange([CiBegin(CiCur) EXCEPT !.visibility = v,
                                                                  !.last.ev = "visibility"])
             ELSE [CiBegin(CiCur) EXCEPT !.visibility = v, !.last.ev = "visibility"])

\* React re-runs the mount effect after a render that changed isScanning
CiRerender ==
  /\ ciQrRef /\ ~ciUnmounted
  /\ ciIsScanning # ciDepIsScanning
  /\ CiSet(ciEffectRerun(CiBegin(CiCur)))

\* the user leaves the screen (navigate('/'), line 651)
CiUnmount ==
  /\ ciQrRef /\ ~ciUnmounted
  /\ CiSet(ciEffectUnmount(CiBegin(CiCur)))

CiNext ==
  \/ CiMount
  \/ CiStartEnumDone
  \/ CiStartEngineDone
  \/ CiStopDone
  \/ CiClearDone
  \/ CiDecode
  \/ CiVerifyDone
  \/ CiToastExpire
  \/ CiNavigate
  \/ CiVisibilityChange
  \/ CiRerender
  \/ CiUnmount

\* ======================================================================
\* Device selection: one call of getFrontCamera (lines 812-833)
\* ======================================================================
\* longest device list enumerated
MaxDevices == 3

PkLabels == {LblIntegrated, LblFrontFacing, LblUSER, LblBack, LblSelfie, LblFacing}

\* the id of the i-th enumerated device
PkId(i) == CASE i = 1 -> "1" [] i = 2 -> "2" [] i = 3 -> "3" [] OTHER -> "4"

\* the device lists of up to MaxDevices devices, ids in enumeration order
PkLists ==
  UNION {{[i \in 1..n |-> Dev(PkId(i), f[i])] : f \in [1..n -> PkLabels]} : n \in 0..MaxDevices}

PkInit ==
  /\ pkStage = "idle"
  /\ pkDevices = <<>>
  /\ pkPicked = ""

\* line 814: Html5Qrcode.getCameras() resolves
PkEnumerate ==
  /\ pkStage = "idle"
  /\ \E d \in PkLists : pkDevices' = d
  /\ pkStage' = "listed"
  /\ UNCHANGED <<pkPicked, gvars, swvars, civars, exvars>>

\* lines 816-829: the choice among the enumerated devices
PkPick ==
  /\ pkStage = "listed"
  /\ Len(pkDevices) > 0
  /\ pkPicked' = getFrontCamera(pkDevices)
  /\ pkStage' = "picked"
  /\ UNCHANGED <<pkDevices, gvars, swvars, civars, exvars>>

\* lines 816-818, 830-832: an empty list makes getFrontCamera throw
PkFail ==
  /\ pkStage = "listed"
  /\ Len(pkDevices) = 0
  /\ pkStage' = "failed"
  /\ UNCHANGED <<pkDevices, pkPicked, gvars, swvars, civars, exvars>>

PkNext ==
  \/ PkEnumerate
  \/ PkPick
  \/ PkFail

\* ======================================================================
\* Code extraction: one decode of CheckInQRScan (lines 456-498)
\* ======================================================================
\* longest decoded text enumerated exhaustively
MaxTextLen == 5

\* a digit, another digit, a letter, the underscore (both \w), a blank (\W)
ExChars == {"1", "2", "a", "_", " "}

\* decoded texts longer than MaxTextLen: a five-digit run, a run after a
\* letter and a run before an underscore, each followed by a bounded run
ExLongTexts ==
  { <<"1", "2", "1", "2", "1", " ", "2", "2", "1", "1">>,
    <<"a", "1", "2", "1", "2", " ", "2", "2", "1", "1">>,
    <<"1", "2", "1", "2", "_", " ", "2", "2", "1", "1">>,
    <<"1", "1", "2", "2", " ", "2", "2", "1", "1">> }

\* the payloads the engine may hand to the decode callback
ExTexts ==
  UNION {[1..n -> ExChars] : n \in 0..MaxTextLen} \cup CiTexts \cup ExLongTexts

ExInit ==
  /\ exStage = "idle"
  /\ exText = <<>>
  /\ exCode = <<>>

\* line 457: the engine calls handleQrDecode(decodedText)
ExDecode ==
  /\ exStage = "idle"
  /\ \E text \in ExTexts : exText' = text
  /\ exStage' = "decoded"
  /\ UNCHANGED <<exCode, gvars, swvars, civars, pkvars>>

\* lines 481-485: no match, the toast, return
ExReject ==
  /\ exStage = "decoded"
  /\ NoMatch(fourDigitMatch(exText))
  /\ exStage' = "rejected"
  /\ UNCHANGED <<exText, exCode, gvars, swvars, civars, pkvars>>

\* lines 487-495: fourDigitCode = fourDigitMatch[0]; verifyCode(fourDigitCode)
ExVerify ==
  /\ exStage = "decoded"
  /\ ~NoMatch(fourDigitMatch(exText))
  /\ exCode' = fourDigitMatch(exText)
  /\ exStage' = "verifying"
  /\ UNCHANGED <<exText, gvars, swvars, civars, pkvars>>

ExNext ==
  \/ ExDecode
  \/ ExReject
  \/ ExVerify

\* ======================================================================
\* Specifications
\* ======================================================================
vars == <<gvars, swvars, civars, pkvars, exvars>>

Init == GInit /\ SwInit /\ CiInit /\ PkInit /\ ExInit

\* the guarded QrScanner
Spec == Init /\ [][GNext]_vars

\* the camera-switching QrScanner
SpecSw == Init /\ [][SwNext]_vars

\* CheckInQRScan
SpecCi == Init /\ [][CiNext]_vars

\* one call of getFrontCamera
SpecPick == Init /\ [][PkNext]_vars

\* one decode of CheckInQRScan
SpecExtract == Init /\ [][ExNext]_vars

\* ======================================================================
\* Claims
\* ======================================================================
\* no startScanning / stopScanning call is between its guard and its end
Quiescent == \A r \in BagToSet(inflight) : r.op \notin {"start", "stop"}

\* stopScanning calls that have issued an engine stop and not yet finished
StopsInFlight == CountOf(inflight, "stop", "stop") + CountOf(inflight, "stop", "clear")

\* the controller is Idle: nothing in flight, no flag set, the engine not scanning
IdleNow ==
  /\ qrRef /\ ~scanningRef /\ ~initializingRef /\ ~stoppingRef
  /\ Quiescent /\ eState = "NOT_STARTED"

\* C1: in the guarded QrScanner at most one engine start is outstanding at any
\* time: no engine start is issued while an earlier one is in flight, or has
\* succeeded and no completed engine stop has followed it.
C1_SingleOutstandingStart == held <= 1

\* a startScanning call got past its guard while the session was still held,
\* found the engine scanning and issued no second start
C1_Witness ==
  /\ held = 1 /\ eState = "SCANNING"
  /\ last.getState = 1 /\ ~last.stopCalled /\ last.start = 0

\* C2: in the guarded QrScanner overlapping stopScanning calls issue at most
\* one engine stop/clear pair: at most one stopScanning call is past its guard
\* at a time, and a call that returns at the guard calls neither getState nor
\* stop nor clear.
C2_OverlappingStopsIssueOnePair ==
  /\ StopsInFlight <= 1
  /\ last.dropStop => (last.getState = 0 /\ last.stop = 0 /\ last.clear = 0)

\* a second stopScanning call returned at its guard while the first was in flight
C2_Witness == last.dropStop /\ stoppingRef /\ StopsInFlight = 1

\* C3: in the guarded QrScanner, after the effect cleanup has run and every
\* in-flight operation has completed, the engine is not scanning and the
\* camera is not held (an engine stop that itself rejected is set aside).
C3_DisposalReleasesCamera ==
  (disposed /\ Quiescent /\ ~stopThrew) => (eState # "SCANNING" /\ ~tracks)

\* C4: in the guarded QrScanner a teardown that finds the controller Scanning
\* (scanningRef set, or a stopScanning call awaiting the engine's stop) leads
\* to exactly one engine stop and one engine clear for that session: never
\* two, and not zero once nothing is in flight (engine rejections set aside).
C4_TeardownIssuesOnePair ==
  (disposed /\ td.open /\ td.eng /\ (td.scan \/ td.stopping) /\ ~stopThrew)
    => /\ td.stops <= 1
       /\ td.clears <= 1
       /\ Quiescent => (td.stops = 1 /\ td.clears = 1)

\* C5: in the guarded QrScanner disposal is terminal: once the cleanup has run,
\* no handler other than the cleanup's own stopScanning call issues an engine
\* start, stop or clear.
C5_DisposalIsTerminal ==
  (disposed /\ ~last.cleanup /\ last.org # "cleanup")
    => (last.start = 0 /\ last.stop = 0 /\ last.clear = 0)

\* a start request: the restart timer fires, or the page becomes visible
StartRequested ==
  \/ CountOf(inflight', "timer", "wait") < CountOf(inflight, "timer", "wait")
  \/ visibility = "hidden" /\ visibility' = "visible"

\* C6: in the guarded QrScanner a start request made while the controller is
\* initializing, scanning or torn down is dropped: it issues no enumeration
\* and no engine start and leaves every controller flag and the
\* observer-visible status (isScanning, message, error, decodedValue) unchanged.
C6_DroppedStartIsNoOp ==
  [][(StartRequested /\ (initializingRef \/ scanningRef \/ ~mountedRef))
       => /\ last'.enum = 0 /\ last'.start = 0
          /\ UNCHANGED <<scanningRef, mountedRef, initializingRef, stoppingRef,
                         isScanning, message, error, decodedValue>>]_vars

\* startScanning returned at its guard while the controller was initializing
\* or scanning
C6_Witness == last.dropStart /\ mountedRef /\ (initializingRef \/ scanningRef)

\* C7: in the guarded QrScanner stopScanning called while the controller is
\* Idle issues no engine stop, clear or start (it only queries getState) and
\* leaves the flags, the engine and the observer-visible status as they were.
C7_StopWhenIdleIsNoOp ==
  [][(IdleNow /\ last'.stopCalled)
       => /\ last'.stop = 0 /\ last'.clear = 0 /\ last'.start = 0 /\ last'.enum = 0
          /\ UNCHANGED <<scanningRef, initializingRef, stoppingRef, eState, held,
                         isScanning, error>>]_vars

\* stopScanning ran from Idle: it got past its guard, asked getState and
\* issued nothing
C7_Witness ==
  /\ last.stopCalled /\ ~last.dropStop /\ last.getState = 1 /\ last.stop = 0
  /\ ~initializingRef /\ ~scanningRef /\ Quiescent /\ eState = "NOT_STARTED"

\* C8: in the guarded QrScanner, when the engine's stop or clear rejects during
\* stopScanning (the component still mounted), the controller ends Idle -
\* scanningRef and stoppingRef false, the observer no longer told "scanning" -
\* and the failure is surfaced as an error message.
C8_StopFailureEndsIdle ==
  (last.threw /\ mountedRef /\ ~unmounted)
    => (~scanningRef /\ ~stoppingRef /\ ~isScanning /\ error = "Failed to stop scanner")

\* the front-like label rule over a list: the first device in order whose
\* label matches, the first device when none does
IsFrontLikeChoice(id, devices) ==
  \E i \in 1..Len(devices) :
    /\ devices[i].id = id
    /\ \/ /\ FrontRegexSw(devices[i].label)
          /\ \A k \in 1..(i - 1) : ~FrontRegexSw(devices[k].label)
       \/ /\ i = 1
          /\ \A k \in 1..Len(devices) : ~FrontRegexSw(devices[k].label)

\* C9, as stated: in the camera-switching QrScanner the fallback of an
\* over-constrained automatic start always issues its one retry: every
\* fallback enumeration that resolves is followed by an engine start with an
\* explicit id.
C9_ExactlyOneRetry ==
  (swLast.ev = "fallbackEnum" /\ swLast.listOk) => swLast.start = 1

\* C9, amended: an over-constrained automatic start triggers exactly one
\* enumeration and at most one retry: one engine start with the explicit id
\* the front-like label rule picks when the enumeration resolves to a
\* non-empty list, none when it resolves to an empty list or rejects; a failed
\* retry, whatever its error, settles in the error status with no further
\* enumeration or engine start.
C9_AtMostOneRetry ==
  /\ \A r \in BagToSet(swInflight) :
       r.op = "start" => (r.depth <= 1 /\ (r.depth = 1 => r.dev # ""))
  /\ (swLast.ev = "startFailed" /\ swLast.dev = ""
        /\ swLast.err = "OverconstrainedError")
       => (swLast.enum = 1 /\ swLast.start = 0)
  /\ swLast.ev = "fallbackEnum"
       => /\ swLast.enum = 0
          /\ IF swLast.listOk /\ Len(swLast.listed) > 0
             THEN /\ swLast.start = 1
                  /\ IsFrontLikeChoice(swLast.startDev, swLast.listed)
             ELSE swLast.start = 0
  /\ (swLast.ev = "startFailed" /\ swLast.depth = 1)
       => /\ swLast.enum = 0 /\ swLast.start = 0
          /\ ~swUnmounted => (swError = "Camera error"
                               /\ swMessage = "Camera failed to start")

\* the retry of a fallback failed with another over-constraint and the
\* controller settled in the error status
C9_Witness ==
  /\ swLast.ev = "startFailed" /\ swLast.depth = 1
  /\ swLast.err = "OverconstrainedError"
  /\ swError = "Camera error" /\ swMessage = "Camera failed to start"

\* C10: in the guarded QrScanner (stopOnScan true) one scanning session
\* notifies the observer of at most one decode.
C10_OneDecodePerSession == sessDecodes <= 1

\* C11: in CheckInQRScan a decode whose text contains no four consecutive
\* digits leaves the controller Scanning: handleQrDecode reports the
\* invalid-code toast and returns without calling verifyCode or stopScanning,
\* issues no engine call and changes neither scanningRef, stoppingRef,
\* isScanning, isLoading nor the engine's state; a decode that does contain a
\* code, earlier invalid decodes or not, is handed to verifyCode.
C11_InvalidDecodeKeepsScanning ==
  [][(ciLast'.ev = "decoded" /\ UnboundedHits(ciLast'.text) = {})
       => /\ ciLast'.verify = 0 /\ ~ciLast'.stopCalled /\ ciLast'.toast = 1
          /\ ciLast'.getState = 0 /\ ciLast'.stop = 0 /\ ciLast'.clear = 0
          /\ ciLast'.start = 0 /\ ciLast'.enum = 0
          /\ ciEState' = "SCANNING"
          /\ ~ciUnmounted => ciToastMessage' = "Invalid QR Code - Please scan a valid 4-digit code"
          /\ UNCHANGED <<ciScanningRef, ciStoppingRef, ciInitializingRef, ciIsScanning,
                         ciIsLoading, ciEState, ciSessVerifies>>]_vars
  /\ [](ciLast.ev = "decoded" /\ UnboundedHits(ciLast.text) # {} => ciLast.verify = 1)

\* "abc" was decoded while scanning: the toast is up, nothing was verified or
\* stopped, and the controller still scans
C11_Witness ==
  /\ ciLast.ev = "decoded" /\ ciLast.text = <<"a", "b", "c">>
  /\ ciLast.toast = 1 /\ ciLast.verify = 0 /\ ~ciLast.stopCalled
  /\ ciScanningRef /\ ciIsScanning /\ ciEState = "SCANNING"
  /\ ciToastMessage = "Invalid QR Code - Please scan a valid 4-digit code"

\* C12: no public entry point returns a rejected promise: in the
\* camera-switching QrScanner every failure met by start() - the rejection of
\* the enumeration of its capability fallback included - is caught inside it.
C12_NoRejectionEscapes == ~swLast.escaped

\* the controller is Scanning: mounted, the engine scanning, scanningRef set,
\* neither a start nor a stop of its own under way
ScanningNow ==
  /\ qrRef /\ mountedRef /\ scanningRef /\ ~stoppingRef /\ ~initializingRef
  /\ eState = "SCANNING"

C14_VisibleResumes ==
  [][(/\ qrRef /\ ~unmounted
      /\ ~scanningRef /\ ~initializingRef /\ ~stoppingRef /\ Quiescent
      /\ eCam # "" /\ eState = "NOT_STARTED" /\ decodedValue = "" /\ error = ""
      /\ ~stopThrew
      /\ visibility = "hidden" /\ visibility' = "visible")
       => last'.enum = 1]_vars

\* C15: in the guarded QrScanner, restartScanning invoked after a decode has
\* stopped the session, the screen still mounted, performs a start after its
\* settle delay: when the 1500 ms timer fires with the controller neither
\* scanning nor initializing and nothing in flight, the enumeration of a new
\* start is issued.
C15_RestartStartsAgain ==
  [][(/\ qrRef /\ ~unmounted
      /\ ~scanningRef /\ ~initializingRef /\ ~stoppingRef
      /\ eState = "NOT_STARTED" /\ decodedValue # "" /\ ~stopThrew
      /\ \A r \in BagToSet(inflight) : r.op = "timer"
      /\ CountOf(inflight', "timer", "wait") < CountOf(inflight, "timer", "wait"))
       => last'.enum = 1]_vars

C17_PreviousDeviceKept ==
  [][(/\ swLast'.ev \in {"populated", "fallbackEnum"} /\ swLast'.listOk
      /\ ~swUnmounted /\ swActiveId # "" /\ swLast'.listed = swCameras
      /\ \E i \in 1..Len(swLast'.listed) : swLast'.listed[i].id = swActiveId)
       => swActiveId' = swActiveId]_vars

C19_SwitchIsStopThenStart ==
  (/\ swLast.ev \in {"switch", "stopSettled", "clearSettled"}
   /\ swLast.start = 1 /\ swLast.startDev # "facingMode:user")
    => swHeld = 1

\* C20: in the guarded QrScanner an engine stop is issued only by a
\* stopScanning call whose getState reported SCANNING or PAUSED, and an engine
\* clear is issued only in the step in which the engine stop of the same call
\* resolves: never together with a stop, never after a stop that threw, never
\* without a stop.
C20_StopThenClear ==
  /\ [][last'.stop > 0
          => (last'.stop = 1 /\ last'.getState = 1 /\ last'.clear = 0
              /\ eState \in {"SCANNING", "PAUSED"} /\ eState' = eState)]_vars
  /\ [][last'.clear > 0
          => /\ last'.clear = 1 /\ last'.stop = 0 /\ ~last'.threw
             /\ \E r \in BagToSet(inflight) :
                  /\ r.op = "stop" /\ r.pc = "stop"
                  /\ inflight' = (inflight (-) SetToBag({r}))
                                   (+) SetToBag({[r EXCEPT !.pc = "clear"]})]_vars
  /\ [](last.threw => last.clear = 0)

\* the engine stop of a decode-triggered stopScanning has resolved and its
\* clear is in flight
C20_Witness ==
  /\ last.org = "decode" /\ last.clear = 1 /\ last.stop = 0
  /\ CountOf(inflight, "stop", "clear") = 1 /\ CountOf(inflight, "stop", "stop") = 0

\* C21: in the guarded QrScanner every stopScanning call that passed its guard
\* has released the residual media tracks of the video element by the time it
\* ends (stoppingRef goes back to false), also when the engine's stop or clear
\* threw.
C21_TracksReleasedOnEveryExit ==
  [][(stoppingRef /\ ~stoppingRef') => ~tracks']_vars

\* C22: in the guarded QrScanner, in every state in which no startScanning or
\* stopScanning call is in flight, scanningRef is true if and only if the
\* engine is scanning or paused.
C22_ScanningRefMirrorsEngine ==
  Quiescent => (scanningRef <=> eState \in {"SCANNING", "PAUSED"})

\* C23: in the guarded QrScanner an engine start is never issued while an
\* engine stop or clear is still in flight on the same handle.
C23_NoStartDuringStop ==
  last.start > 0 => StopsInFlight = 0

\* C24: in the camera-switching QrScanner an automatic start issued by the
\* mount effect or by a 'visible' visibility event is the only engine start
\* outstanding at that time.
C24_NoDuplicateAutomaticStart ==
  (swLast.ev = "" /\ swLast.start = 1 /\ swLast.startDev = "facingMode:user")
    => swHeld = 1

\* C25: in the camera-switching QrScanner with stopOnScan false every decode
\* calls onDecode exactly once with the decoded text, issues no engine stop,
\* clear or start, and leaves scanningRef, the engine and the calls in flight
\* as they were, so the engine goes on scanning and reporting.
C25_KeepScanningReportsEachDecode ==
  [][swLast'.ev = "decoded"
       => /\ swLast'.notified = 1
          /\ swLast'.notifiedText = swLast'.decodedText
          /\ swLast'.notifiedText \in SwTexts
          /\ swLast'.stop = 0 /\ swLast'.start = 0 /\ swLast'.enum = 0
          /\ swEState' = "SCANNING"
          /\ UNCHANGED <<swScanningRef, swEState, swInflight, swHeld, swError,
                         swActiveId>>]_vars

\* a decode was reported while scanning and the controller still scans
C25_Witness ==
  /\ swLast.ev = "decoded" /\ swLast.notified = 1 /\ swLast.notifiedText = "1234"
  /\ swScanningRef /\ swEState = "SCANNING" /\ swLast.stop = 0
  /\ \A r \in BagToSet(swInflight) : r.op # "stop"

\* C26: a decode callback the engine fires after the unmount cleanup of
\* CheckInQRScan has run produces no verification request and no engine call.
C26_NoStaleDecodeAfterTeardown ==
  [][(ciUnmounted /\ ciDisposed /\ ciLast'.ev = "decoded")
       => /\ ciLast'.verify = 0
          /\ ciLast'.getState = 0 /\ ciLast'.stop = 0 /\ ciLast'.clear = 0
          /\ ciLast'.start = 0 /\ ciLast'.enum = 0]_vars

\* C27: the code CheckInQRScan extracts is the leftmost word-bounded run of
\* exactly four digits when there is one, otherwise the leftmost four
\* consecutive digits, and the whole text when the text is exactly four
\* digits; the decode is rejected exactly when the text holds no four
\* consecutive digits; the string handed to verifyCode is four digits.
C27_LayeredExtraction ==
  LET n == Len(exText)
      run(i) == i + 3 <= n /\ \A j \in 0..3 : exText[i + j] \in Digits
      wordAt(i) == i >= 1 /\ i <= n /\ exText[i] \in WordChars
      bounded(i) == run(i) /\ ~wordAt(i - 1) /\ ~wordAt(i + 4)
      firstOf(P(_)) == CHOOSE i \in 1..n : P(i) /\ \A k \in 1..(i - 1) : ~P(k)
      at(i) == [k \in 1..4 |-> exText[i + k - 1]]
  IN /\ exStage = "rejected" => ~\E i \in 1..n : run(i)
     /\ exStage = "verifying" =>
          /\ \E i \in 1..n : run(i)
          /\ Len(exCode) = 4 /\ \A k \in 1..4 : exCode[k] \in Digits
          /\ (\E i \in 1..n : bounded(i)) => exCode = at(firstOf(bounded))
          /\ (~\E i \in 1..n : bounded(i)) => exCode = at(firstOf(run))
          /\ (n = 4 /\ run(1)) => exCode = exText

\* a bounded run was extracted although four digits occur earlier in the text
C27_Witness ==
  /\ exStage = "verifying"
  /\ BoundedHits(exText) # {} /\ UnboundedHits(exText) # {}
  /\ Leftmost(UnboundedHits(exText)) < Leftmost(BoundedHits(exText))
  /\ exCode = <<"2", "2", "1", "1">>

\* C28: between two engine starts CheckInQRScan hands at most one code to
\* verifyCode, also when a second decode arrives before the engine stop the
\* first one requested has completed.
C28_OneVerificationPerSession == ciSessVerifies <= 1

\* C29: a stopScanning call made while a startScanning call of the guarded
\* QrScanner is in flight and the engine is not scanning issues no engine
\* stop or clear and leaves the start in flight with initializingRef set;
\* and every engine start that resolves ends with scanningRef set and the
\* engine scanning, the step itself calling no stopScanning.
C29_NoMidFlightCancellation ==
  /\ [][(/\ initializingRef
         /\ Pending("start", "enum") \cup Pending("start", "engine") # {}
         /\ eState \notin {"SCANNING", "PAUSED"}
         /\ last'.stopCalled)
          => /\ last'.stop = 0 /\ last'.clear = 0
             /\ initializingRef'
             /\ \A r \in Pending("start", "enum") \cup Pending("start", "engine") :
                  CopiesIn(r, inflight') = CopiesIn(r, inflight)]_vars
  /\ [][(\E r \in Pending("start", "engine") :
           /\ CopiesIn(r, inflight') < CopiesIn(r, inflight)
           /\ eState' = "SCANNING")
          => /\ scanningRef' /\ ~initializingRef'
             /\ ~last'.stopCalled /\ last'.stop = 0 /\ last'.clear = 0]_vars

\* a stopScanning call passed its guard while a start was in flight, issued
\* nothing, and the start is still in flight
C29_Witness ==
  /\ last.stopCalled /\ ~last.dropStop /\ last.stop = 0 /\ last.clear = 0
  /\ initializingRef /\ ~stoppingRef
  /\ Pending("start", "enum") \cup Pending("start", "engine") # {}
  /\ eState = "NOT_STARTED"

\* C30: in the guarded QrScanner initializingRef is set only while a
\* startScanning call is at one of its awaits and stoppingRef only while a
\* stopScanning call is at one of its awaits, so with no such call in flight
\* both flags are clear, whichever way the calls ended.
C30_GuardsNeverWedge ==
  /\ initializingRef => Pending("start", "enum") \cup Pending("start", "engine") # {}
  /\ stoppingRef => StopsInFlight > 0
  /\ Quiescent => (~initializingRef /\ ~stoppingRef)

\* an engine stop was rejected, nothing is in flight any more and both flags
\* are clear
C30_Witness ==
  /\ stopThrew /\ last.threw /\ Quiescent /\ qrRef
  /\ ~initializingRef /\ ~stoppingRef

\* C31: the guarded QrScanner does not hold the camera while the page is
\* hidden: whenever the component listens for visibility changes, the last
\* one reported 'hidden' and no startScanning or stopScanning call is in
\* flight, the engine is not scanning.
C31_NoCameraWhileHidden ==
  (visibility = "hidden" /\ listening /\ ~unmounted /\ Quiescent) => eState # "SCANNING"

====
